---------------------------- MODULE Spec2Model ----------------------------
(***************************************************************************)
(* Model of the pdf-analyzer upload service (src/server.js, lines 1-309):  *)
(* the in-memory result cache, the two upload handlers and the OCR text    *)
(* extractor with its regular expressions.                                 *)
(*                                                                         *)
(* A text is a sequence of one-character strings.  A JavaScript value that *)
(* may be null is a record tagged "null" or "string".                      *)
(***************************************************************************)
EXTENDS Integers, Sequences, FiniteSets, TLC

VARIABLES CACHE, now, req, calls, rawText, text, analysis, epc,
          candidate, record, npc

vars == <<CACHE, now, req, calls, rawText, text, analysis, epc,
          candidate, record, npc>>

(***************************************************************************)
(* Characters                                                              *)
(***************************************************************************)
UpperSeq ==
  <<"A","B","C","D","E","F","G","H","I","J","K","L","M",
    "N","O","P","Q","R","S","T","U","V","W","X","Y","Z">>

LowerSeq ==
  <<"a","b","c","d","e","f","g","h","i","j","k","l","m",
    "n","o","p","q","r","s","t","u","v","w","x","y","z">>

Upper == {UpperSeq[i] : i \in 1..26}
Lower == {LowerSeq[i] : i \in 1..26}
Digits == {"0","1","2","3","4","5","6","7","8","9"}

\* \w of a JavaScript regular expression
WordChars == Upper \cup Lower \cup Digits \cup {"_"}

\* \s of a JavaScript regular expression, and what String.prototype.trim strips
WhiteSpace == {" ", "\t", "\n", "\r", "\f"}

ToUpper(c) ==
  IF c \in Lower THEN UpperSeq[CHOOSE i \in 1..26 : LowerSeq[i] = c] ELSE c

ToLower(c) ==
  IF c \in Upper THEN LowerSeq[CHOOSE i \in 1..26 : UpperSeq[i] = c] ELSE c

\* a character class under the /i flag
Ci(S) == S \cup {ToUpper(c) : c \in S} \cup {ToLower(c) : c \in S}

\* [A-HJ-NPR-Z0-9]
VinChars == (Upper \ {"I", "O", "Q"}) \cup Digits

(***************************************************************************)
(* JavaScript values                                                       *)
(***************************************************************************)
Null == [tag |-> "null"]
Str(s) == [tag |-> "string", val |-> s]
IsNull(v) == v.tag = "null"
IsStr(v) == v.tag = "string"

(***************************************************************************)
(* String.prototype.trim                                                   *)
(***************************************************************************)
\* the first and the last position of s that hold no white space, each found
\* by halving the range lo..hi (0: there is none)
RECURSIVE FirstInk(_, _, _)
FirstInk(s, lo, hi) ==
  IF lo > hi THEN 0
  ELSE IF lo = hi THEN (IF s[lo] \in WhiteSpace THEN 0 ELSE lo)
  ELSE LET mid == (lo + hi) \div 2
           l == FirstInk(s, lo, mid)
       IN  IF l # 0 THEN l ELSE FirstInk(s, mid + 1, hi)

RECURSIVE LastInk(_, _, _)
LastInk(s, lo, hi) ==
  IF lo > hi THEN 0
  ELSE IF lo = hi THEN (IF s[lo] \in WhiteSpace THEN 0 ELSE lo)
  ELSE LET mid == (lo + hi) \div 2
           h == LastInk(s, mid + 1, hi)
       IN  IF h # 0 THEN h ELSE LastInk(s, lo, mid)

Trim(s) ==
  LET a == FirstInk(s, 1, Len(s))
  IN  IF a = 0 THEN <<>> ELSE SubSeq(s, a, LastInk(s, 1, Len(s)))

(***************************************************************************)
(* Regular expressions: a pattern is a sequence of nodes, matched by       *)
(* backtracking with the priorities of the JavaScript engine (greedy       *)
(* quantifiers, alternatives left to right, leftmost start).               *)
(***************************************************************************)
\* S{lo,hi}, greedy; hi < 0 is "no upper limit"
Cls(S, lo, hi) == <<[k |-> "cls", neg |-> FALSE, set |-> S, min |-> lo, max |-> hi]>>
\* [^S]{lo,hi}
NotCls(S, lo, hi) == <<[k |-> "cls", neg |-> TRUE, set |-> S, min |-> lo, max |-> hi]>>
Star(S) == Cls(S, 0, -1)
Plus(S) == Cls(S, 1, -1)
\* \b
WB == <<[k |-> "wb"]>>
\* ( ... ) as capture group g
Group(g, p) == <<[k |-> "open", g |-> g]>> \o p \o <<[k |-> "close", g |-> g]>>
\* (?: ... )?
Opt(p) == <<[k |-> "opt", sub |-> p]>>
\* (?: a | b | ... )
Alt(ps) == <<[k |-> "alt", subs |-> ps]>>

\* a literal: one set of characters for each of its positions
Lit(s) == <<[k |-> "lit", sets |-> [i \in 1..Len(s) |-> {s[i]}]]>>

\* a literal under the /i flag
LitI(s) == <<[k |-> "lit", sets |-> [i \in 1..Len(s) |-> Ci({s[i]})]]>>

NoMatch == [ok |-> FALSE]

InCls(n, c) == IF n.neg THEN c \notin n.set ELSE c \in n.set

\* the first position of lo..hi whose character is outside the class, found
\* by halving the range (0: there is none)
RECURSIVE FirstOutside(_, _, _, _)
FirstOutside(n, t, lo, hi) ==
  IF lo > hi THEN 0
  ELSE IF lo = hi THEN (IF InCls(n, t[lo]) THEN 0 ELSE lo)
  ELSE LET mid == (lo + hi) \div 2
           l == FirstOutside(n, t, lo, mid)
       IN  IF l # 0 THEN l ELSE FirstOutside(n, t, mid + 1, hi)

\* how many characters from position pos on belong to the class, at most n.max
RunLen(n, t, pos) ==
  LET hi == IF n.max >= 0 /\ pos + n.max - 1 < Len(t) THEN pos + n.max - 1 ELSE Len(t)
      out == FirstOutside(n, t, pos, hi)
  IN  IF out = 0 THEN hi - pos + 1 ELSE out - pos

\* whether the literal n stands at position pos
LitAt(n, t, pos) ==
  /\ pos + Len(n.sets) - 1 <= Len(t)
  /\ \A i \in 1..Len(n.sets) : t[pos + i - 1] \in n.sets[i]

IsWordAt(t, i) == i >= 1 /\ i <= Len(t) /\ t[i] \in WordChars

AtBoundary(t, pos) == IsWordAt(t, pos - 1) # IsWordAt(t, pos)

RECURSIVE MatchFrom(_, _, _, _)
RECURSIVE TryCount(_, _, _, _, _, _)
RECURSIVE TryAlt(_, _, _, _, _, _)

\* the match of the nodes at position pos with capture group 1 as in cap
MatchFrom(nodes, t, pos, cap) ==
  IF Len(nodes) = 0 THEN [ok |-> TRUE, end |-> pos, cap |-> cap]
  ELSE
    LET n == Head(nodes)
        rest == Tail(nodes)
    IN  CASE n.k = "cls" ->
               LET r == RunLen(n, t, pos)
               IN  IF r < n.min THEN NoMatch
                   ELSE TryCount(n, rest, t, pos, r, cap)
          [] n.k = "lit" ->
               IF LitAt(n, t, pos) THEN MatchFrom(rest, t, pos + Len(n.sets), cap)
               ELSE NoMatch
          [] n.k = "wb" ->
               IF AtBoundary(t, pos) THEN MatchFrom(rest, t, pos, cap)
               ELSE NoMatch
          [] n.k = "open" ->
               MatchFrom(rest, t, pos,
                         IF n.g = 1 THEN [cap EXCEPT !.s = pos] ELSE cap)
          [] n.k = "close" ->
               MatchFrom(rest, t, pos,
                         IF n.g = 1 THEN [cap EXCEPT !.e = pos] ELSE cap)
          [] n.k = "opt" ->
               LET with == MatchFrom(n.sub \o rest, t, pos, cap)
               IN  IF with.ok THEN with ELSE MatchFrom(rest, t, pos, cap)
          [] n.k = "alt" ->
               TryAlt(n.subs, 1, rest, t, pos, cap)

\* greedy: the longest count first, then shorter ones
TryCount(n, rest, t, pos, c, cap) ==
  LET res == MatchFrom(rest, t, pos + c, cap)
  IN  IF res.ok THEN res
      ELSE IF c <= n.min THEN NoMatch
      ELSE TryCount(n, rest, t, pos, c - 1, cap)

TryAlt(subs, i, rest, t, pos, cap) ==
  IF i > Len(subs) THEN NoMatch
  ELSE LET res == MatchFrom(subs[i] \o rest, t, pos, cap)
       IN  IF res.ok THEN res ELSE TryAlt(subs, i + 1, rest, t, pos, cap)

NoCap == [s |-> 0, e |-> 0]

\* the match that starts leftmost in lo..hi, found by halving the range
RECURSIVE SearchIn(_, _, _, _)
SearchIn(re, t, lo, hi) ==
  IF lo = hi
  THEN LET res == MatchFrom(re, t, lo, NoCap)
       IN  IF res.ok THEN [ok |-> TRUE, start |-> lo, end |-> res.end,
                           cap |-> res.cap]
           ELSE NoMatch
  ELSE LET mid == (lo + hi) \div 2
           l == SearchIn(re, t, lo, mid)
       IN  IF l.ok THEN l ELSE SearchIn(re, t, mid + 1, hi)

\* String.prototype.match(re) without the g flag: the leftmost match
Search(re, t) == SearchIn(re, t, 1, Len(t) + 1)

\* m[1] of a successful match
Group1(t, m) == SubSeq(t, m.cap.s, m.cap.e - 1)

(***************************************************************************)
(* normalizeText                                                           *)
(***************************************************************************)
\* .replace(/\r/g, "\n")
ReplaceCR(t) == [i \in 1..Len(t) |-> IF t[i] = "\r" THEN "\n" ELSE t[i]]

\* a mark for a position that a replacement drops; it is no character
Dropped == ""
Kept(c) == c # Dropped

\* .replace(/[ \t]+/g, " "): of a run of blanks the first becomes a space and
\* the others are dropped
CollapseBlanks(t) ==
  SelectSeq([i \in 1..Len(t) |->
               IF t[i] \notin {" ", "\t"} THEN t[i]
               ELSE IF i > 1 /\ t[i - 1] \in {" ", "\t"} THEN Dropped
               ELSE " "],
            Kept)

\* .replace(/\n{3,}/g, "\n\n"): of a run of newlines the third and the later
\* ones are dropped
CollapseNewlines(t) ==
  SelectSeq([i \in 1..Len(t) |->
               IF i > 2 /\ t[i] = "\n" /\ t[i - 1] = "\n" /\ t[i - 2] = "\n"
               THEN Dropped ELSE t[i]],
            Kept)

\* the replacements with the newline runs collapsed before \r is replaced
normalizeTextNewlinesFirst(t) == Trim(CollapseBlanks(ReplaceCR(CollapseNewlines(t))))

normalizeText(t) == Trim(CollapseNewlines(CollapseBlanks(ReplaceCR(t))))

(***************************************************************************)
(* The patterns of extractFromVisionText, in the order of the source       *)
(***************************************************************************)
Sep == Star({":"} \cup WhiteSpace)                       \* [:\s]*
Ws == Star(WhiteSpace)                                   \* \s*
\* a number pattern that tolerates the period only
NumberPeriodOnly == Plus(Digits) \o Opt(Cls({"."}, 1, 1) \o Plus(Digits))

Number == Plus(Digits) \o Opt(Cls({".", ","}, 1, 1) \o Plus(Digits))
                                                 \* [0-9]+(?:[.,][0-9]+)?
DateRe ==                          \* [0-9]{1,2}[./-][0-9]{1,2}[./-][0-9]{2,4}
  Cls(Digits, 1, 2) \o Cls({".", "/", "-"}, 1, 1) \o Cls(Digits, 1, 2)
    \o Cls({".", "/", "-"}, 1, 1) \o Cls(Digits, 2, 4)
Currency == Opt(Group(2, Cls(Ci(Upper), 3, 3)))          \* ([A-Z]{3})?  with /i
Line(lo, hi) == NotCls({"\n"}, lo, hi)                   \* [^\n]{lo,hi}

\* the VIN patterns with the bare pattern tried first
VinPatternsBareFirst ==
  << WB \o Group(1, Cls(VinChars, 17, 17)) \o WB,
     WB \o LitI(<<"V","I","N">>) \o Sep \o Group(1, Cls(Ci(VinChars), 17, 17)) \o WB >>

VinPatterns ==
  << WB \o LitI(<<"V","I","N">>) \o Sep \o Group(1, Cls(Ci(VinChars), 17, 17)) \o WB,
     WB \o Group(1, Cls(VinChars, 17, 17)) \o WB >>

GrossPatterns ==
  << WB \o LitI(<<"G","r","o","s","s">>) \o Ws \o LitI(<<"w","e","i","g","h","t">>)
        \o Sep \o Group(1, Number) \o Ws \o Opt(Group(2, LitI(<<"k","g">>))) \o WB,
     WB \o LitI(<<"B","r","u","t">>) \o Opt(LitI(<<"t","o">>)) \o Sep
        \o Group(1, Number) \o WB >>

InvoiceWord == LitI(<<"I","n","v","o","i","c","e">>)

InvoiceNoKinds ==
  << LitI(<<"N","o">>), Lit(<<"#">>), LitI(<<"N","u","m","b","e","r">>) >>

InvoiceNoChars == Ci(Upper) \cup Digits \cup {"-", "/"}  \* [A-Z0-9\-\/] with /i

\* line 95: the label's alternation is capture group 1, the number is group 2
InvoiceNoPatterns ==
  << WB \o InvoiceWord \o Ws \o Group(1, Alt(InvoiceNoKinds)) \o Sep
        \o Group(2, Plus(InvoiceNoChars)) \o WB >>

\* line 100: the alternation does not capture, the number is group 1
InvoiceNoFixedPattern ==
  WB \o InvoiceWord \o Ws \o Alt(InvoiceNoKinds) \o Sep
     \o Group(1, Plus(InvoiceNoChars)) \o WB

DateLabelled == WB \o LitI(<<"D","a","t","e">>) \o Sep \o Group(1, DateRe) \o WB

InvoiceDatePatterns ==
  << WB \o InvoiceWord \o Ws \o LitI(<<"D","a","t","e">>) \o Sep
        \o Group(1, DateRe) \o WB,
     DateLabelled >>

TotalPatterns ==
  << WB \o LitI(<<"T","o","t","a","l">>)
        \o Opt(Ws \o LitI(<<"A","m","o","u","n","t">>)) \o Sep
        \o Group(1, Number) \o Ws \o Currency \o WB,
     WB \o LitI(<<"G","r","a","n","d">>) \o Ws \o LitI(<<"T","o","t","a","l">>)
        \o Sep \o Group(1, Number) \o Ws \o Currency \o WB >>

\* a labelled line with the upper limit of the goods for every label
LabelledUpTo120(label, lo, hi) == WB \o LitI(label) \o Sep \o Group(1, Line(lo, 120))

Labelled(label, lo, hi) == WB \o LitI(label) \o Sep \o Group(1, Line(lo, hi))

ExporterPatterns ==
  << Labelled(<<"E","x","p","o","r","t","e","r">>, 3, 80),
     Labelled(<<"S","e","n","d","e","r">>, 3, 80),
     Labelled(<<"C","o","n","s","i","g","n","o","r">>, 3, 80) >>

ImporterPatterns ==
  << Labelled(<<"I","m","p","o","r","t","e","r">>, 3, 80),
     Labelled(<<"R","e","c","e","i","v","e","r">>, 3, 80),
     Labelled(<<"C","o","n","s","i","g","n","e","e">>, 3, 80) >>

DescriptionWord == LitI(<<"d","e","s","c","r","i","p","t","i","o","n">>)

GoodsPatterns ==
  << WB \o LitI(<<"G","o","o","d","s">>) \o Opt(Ws \o DescriptionWord) \o Sep
        \o Group(1, Line(3, 120)),
     WB \o DescriptionWord \o Sep \o Group(1, Line(3, 120)) >>

CmrDatePatterns ==
  << WB \o LitI(<<"C","M","R">>) \o Ws \o LitI(<<"D","a","t","e">>) \o Sep
        \o Group(1, DateRe) \o WB,
     DateLabelled >>

PlaceWord == LitI(<<"P","l","a","c","e">>)

LoadingPatterns ==
  << WB \o PlaceWord \o Ws \o LitI(<<"o","f">>) \o Ws
        \o LitI(<<"t","a","k","i","n","g">>) \o Ws \o LitI(<<"o","v","e","r">>)
        \o Sep \o Group(1, Line(2, 80)),
     WB \o LitI(<<"L","o","a","d","i","n","g">>) \o Ws \o PlaceWord \o Sep
        \o Group(1, Line(2, 80)) >>

DeliveryPatterns ==
  << WB \o PlaceWord \o Ws \o LitI(<<"d","e","s","i","g","n","a","t","e","d">>)
        \o Ws \o LitI(<<"f","o","r">>) \o Ws
        \o LitI(<<"d","e","l","i","v","e","r","y">>) \o Sep
        \o Group(1, Line(2, 80)),
     WB \o LitI(<<"D","e","l","i","v","e","r","y">>) \o Ws \o PlaceWord \o Sep
        \o Group(1, Line(2, 80)) >>

(***************************************************************************)
(* matchOne, pickFirst, extractFromVisionText                              *)
(***************************************************************************)
\* the loop of matchOne from pattern i on: m[1].trim() of the first pattern
\* that matches with a non-empty group 1
\* a loop in which a later pattern that matches overrides an earlier one
RECURSIVE matchLoopLastWins(_, _, _)
matchLoopLastWins(t, patterns, i) ==
  IF i > Len(patterns) THEN Null
  ELSE LET later == matchLoopLastWins(t, patterns, i + 1)
           m == Search(patterns[i], t)
       IN  IF later # Null THEN later
           ELSE IF m.ok /\ Len(Group1(t, m)) > 0 THEN Str(Trim(Group1(t, m)))
           ELSE Null

RECURSIVE matchLoop(_, _, _)
matchLoop(t, patterns, i) ==
  IF i > Len(patterns) THEN Null
  ELSE LET m == Search(patterns[i], t)
       IN  IF m.ok /\ Len(Group1(t, m)) > 0 THEN Str(Trim(Group1(t, m)))
           ELSE matchLoop(t, patterns, i + 1)

matchOne(t, patterns) == IF Len(t) = 0 THEN Null ELSE matchLoop(t, patterns, 1)

\* v, without the || null
OrNullMissing(v) == v

\* v || null
OrNull(v) == IF IsStr(v) /\ Len(v.val) = 0 THEN Null ELSE v

\* pickFirst(a, b)
pickFirst(a, b) ==
  IF IsStr(a) /\ Len(Trim(a.val)) > 0 THEN a
  ELSE IF IsStr(b) /\ Len(Trim(b.val)) > 0 THEN b
  ELSE Null

\* lines 99-102
invoiceNoFixed(t) ==
  LET m == Search(InvoiceNoFixedPattern, t)
  IN  IF m.ok THEN OrNull(Str(Trim(Group1(t, m)))) ELSE Null

\* lines 81-154: the fields matched in the normalized text t
extractFields(t) ==
  [ vin          |-> OrNull(matchOne(t, VinPatterns)),
    gross        |-> OrNull(matchOne(t, GrossPatterns)),
    invoiceNo    |-> OrNull(matchOne(t, InvoiceNoPatterns)),
    invoiceNoFixed |-> invoiceNoFixed(t),
    invoiceDate  |-> OrNull(matchOne(t, InvoiceDatePatterns)),
    total        |-> OrNull(matchOne(t, TotalPatterns)),
    exporterName |-> OrNull(matchOne(t, ExporterPatterns)),
    importerName |-> OrNull(matchOne(t, ImporterPatterns)),
    goodsName    |-> OrNull(matchOne(t, GoodsPatterns)),
    cmrDate      |-> OrNull(matchOne(t, CmrDatePatterns)),
    loadingPlace |-> OrNull(matchOne(t, LoadingPatterns)),
    deliveryPlace |-> OrNull(matchOne(t, DeliveryPatterns)) ]

\* lines 156-176: the record returned
buildRecord(f) ==
  [ cmr |->
      [ exporter |-> [name |-> OrNull(f.exporterName), address |-> Null],
        importer |-> [name |-> OrNull(f.importerName), id |-> Null],
        goods_name |-> OrNull(f.goodsName),
        vin |-> f.vin,
        gross_weight_kg |-> f.gross,
        loading_place |-> f.loadingPlace,
        delivery_place |-> f.deliveryPlace,
        date |-> f.cmrDate ],
    invoice |->
      [ exporter |-> [name |-> OrNull(f.exporterName)],
        importer |-> [name |-> OrNull(f.importerName), id |-> Null],
        goods_name |-> OrNull(f.goodsName),
        vin |-> f.vin,
        invoice_no |-> pickFirst(f.invoiceNoFixed, f.invoiceNo),
        invoice_date |-> f.invoiceDate,
        total_amount |-> f.total ] ]

extractFromVisionText(raw) == buildRecord(extractFields(normalizeText(raw)))

(***************************************************************************)
(* The texts the extractor is run on: the examples of the specification,   *)
(* and every text of at most MaxLines lines of one subject, the lines      *)
(* joined by newlines.                                                     *)
(***************************************************************************)
MaxLines == 2

\* lines about the VIN
VinLines ==
  { <<"1","M","8","G","D","M","9","A","X","K","P","0","4","2","7","8","8">>,
     <<"V","I","N",":"," ","2","T","1","B","R","3","2","E","5","4","C","1","2","3","4","5","6">>,
     <<"v","i","n"," ","j","h","4","k","a","8","2","6","0","m","c","0","0","0","0","0","1">>,
     <<"X","V","I","N",":"," ","2","T","1","B","R","3","2","E","5","4","C","1","2","3","4","5","6">>,
     <<"V","I","N",":"," ","2","T","1","B","R","3","2","E","5","4","C","1","2","3","4","5","6","7">>,
     <<"V","I","N",":"," ","1","M","8","G","D","M","9","A","X","K","P","O","4","2","7","8","8">>,
     <<"V","I","N">>,
     <<"n","o"," ","r","e","l","e","v","a","n","t"," ","c","o","n","t","e","n","t">> }

\* lines about the gross weight
WeightLines ==
  { <<"G","r","o","s","s"," ","w","e","i","g","h","t",":"," ","4","5","0",",","5"," ","k","g">>,
     <<"B","r","u","t","t","o",":"," ","1","2",".","5">>,
     <<"B","r","u","t"," ","7">>,
     <<"G","R","O","S","S"," ","W","E","I","G","H","T"," ","3","0","0","k","g">>,
     <<"G","r","o","s","s"," ","w","e","i","g","h","t",":"," ","4","5","0",",","5","k","g","s">>,
     <<"G","r","o","s","s"," ","w","e","i","g","h","t",":"," ","h","e","a","v","y">>,
     <<"N","e","t"," ","w","e","i","g","h","t",":"," ","3">> }

\* lines about the invoice and the dates
InvoiceLines ==
  { <<"I","n","v","o","i","c","e"," ","N","o",":"," ","I","N","V","-","2","0","2","4","/","0","1">>,
     <<"I","n","v","o","i","c","e"," ","#"," ","7","7">>,
     <<"I","n","v","o","i","c","e"," ","D","a","t","e",":"," ","0","1",".","0","2",".","2","0","2","4">>,
     <<"D","a","t","e",":"," ","3","/","4","/","2","4">>,
     <<"T","o","t","a","l",":"," ","1","0","0","0",",","5","0"," ","U","S","D">>,
     <<"G","r","a","n","d"," ","T","o","t","a","l",":"," ","2","0","0","0",".","7","5"," ","E","U","R">>,
     <<"T","o","t","a","l"," ","A","m","o","u","n","t"," ","1","5">>,
     <<"C","M","R"," ","D","a","t","e",":"," ","0","5","-","0","6","-","2","0","2","3">> }

\* lines about the parties and the goods
PartyLines ==
  { <<"E","x","p","o","r","t","e","r",":"," ","A","C","M","E"," ","L","L","C">>,
     <<"S","e","n","d","e","r",":"," ","B","o","b">>,
     <<"C","o","n","s","i","g","n","o","r",":">>,
     <<"I","m","p","o","r","t","e","r",":"," ","a","b">>,
     <<"R","e","c","e","i","v","e","r",":"," ","X"," ","Y"," ">>,
     <<"C","o","n","s","i","g","n","e","e",":","\f","\f","\f">>,
     <<"G","o","o","d","s"," ","d","e","s","c","r","i","p","t","i","o","n",":"," ","c","a","r","s">>,
     <<"D","e","s","c","r","i","p","t","i","o","n",":"," ","a","b"," ">>,
     <<"G","o","o","d","s">>,
     <<"a","b">>,
     <<"S","e","n","d","e","r",":"," ">> \o [i \in 1..85 |-> "z"],
     <<"G","o","o","d","s",":"," ">> \o [i \in 1..125 |-> "z"] }

\* lines about the places
PlaceLines ==
  { <<"P","l","a","c","e"," ","o","f"," ","t","a","k","i","n","g"," ","o","v","e","r",":"," ","B","a","k","u">>,
     <<"L","o","a","d","i","n","g"," ","p","l","a","c","e",":"," ","G","a","n","j","a">>,
     <<"P","l","a","c","e"," ","d","e","s","i","g","n","a","t","e","d"," ","f","o","r"," ","d","e","l","i","v","e","r","y",":"," ","T","b","i","l","i","s","i">>,
     <<"D","e","l","i","v","e","r","y"," ","p","l","a","c","e",":">>,
     <<"D","e","l","i","v","e","r","y"," ","p","l","a","c","e",":"," ","B">>,
     <<"R","i","g","a">> }

\* lines with raw white space
BlankLines ==
  { <<"a"," ","b">>,
     <<" ","a">>,
     <<"a","\t"," ","\t","b"," ">>,
     <<>>,
     <<"a","\r">>,
     <<"\r","\n","\r">>,
     <<"a","\r","\n","\r","\n","b">>,
     <<"x","\n","\n","\n","\n","y">>,
     <<"S","e","n","d","e","r",":"," ","A","\r","B","C">>,
     <<"\f"," ","a">> }

\* "Exporter: ACME LLC\nVIN: 1M8GDM9AXKP042788\nGross weight: 450,5 kg"
EndToEndText ==
  <<"E","x","p","o","r","t","e","r",":"," ","A","C","M","E"," ","L","L","C","\n","V","I","N",":"," ","1","M","8","G","D","M","9","A","X","K","P","0","4","2","7","8","8","\n","G","r","o","s","s"," ","w","e","i","g","h","t",":"," ","4","5","0",",","5"," ","k","g">>

NoContentText == <<"n","o"," ","r","e","l","e","v","a","n","t"," ","c","o","n","t","e","n","t">>

Subjects == {VinLines, WeightLines, InvoiceLines, PartyLines, PlaceLines, BlankLines}

RECURSIVE Join(_)
Join(ls) ==
  IF Len(ls) = 0 THEN <<>>
  ELSE IF Len(ls) = 1 THEN ls[1]
  ELSE ls[1] \o <<"\n">> \o Join(Tail(ls))

RawTexts ==
  {<<>>, EndToEndText, NoContentText}
    \cup UNION {{Join(ls) : ls \in [1..n -> L]} : n \in 1..MaxLines, L \in Subjects}

(***************************************************************************)
(* The Normalizer (section 4.1 of the specification)                       *)
(***************************************************************************)
Undefined == [tag |-> "undefined"]
Num(n) == [tag |-> "number", val |-> n]
Arr == [tag |-> "array"]
Obj(f) == [tag |-> "object", fields |-> f]
IsObj(v) == v.tag = "object"

\* v[name], undefined when v is no object or has no such field
Field(v, name) ==
  IF IsObj(v) /\ name \in DOMAIN v.fields THEN v.fields[name] ELSE Undefined

\* the decimal digits of a natural number
RECURSIVE Decimal(_)
Decimal(n) ==
  IF n < 10 THEN <<SubSeq(<<"0","1","2","3","4","5","6","7","8","9">>, n + 1, n + 1)[1]>>
  ELSE Decimal(n \div 10) \o Decimal(n % 10)

\* a leaf as a string: a string as it is, a number by its digits, anything
\* else (null, undefined, missing, a nested value) as the empty string
AsString(v) ==
  IF IsStr(v) THEN v.val
  ELSE IF v.tag = "number" THEN Decimal(v.val)
  ELSE <<>>

UpperCase(s) == [i \in 1..Len(s) |-> ToUpper(s[i])]

\* a text field with one white-space character taken from each end only
normTextTrimOnce(v) ==
  LET s == AsString(v)
      a == IF Len(s) > 0 /\ s[1] \in WhiteSpace THEN 2 ELSE 1
      b == IF Len(s) > 0 /\ s[Len(s)] \in WhiteSpace THEN Len(s) - 1 ELSE Len(s)
  IN  Str(SubSeq(s, a, b))

\* a text field: trimmed
normText(v) == Str(Trim(AsString(v)))

IsVin(s) == Len(s) = 17 /\ \A i \in 1..Len(s) : s[i] \in VinChars

\* a VIN field whose first 17 characters are kept when it is longer
normVinTruncating(v) ==
  LET u == Trim(UpperCase(AsString(v)))
      w == IF Len(u) > 17 THEN SubSeq(u, 1, 17) ELSE u
  IN  Str(IF IsVin(w) THEN w ELSE <<>>)

\* a VIN field: upper case, trimmed, then 17 VIN characters or nothing
normVin(v) ==
  LET u == Trim(UpperCase(AsString(v)))
  IN  Str(IF IsVin(u) THEN u ELSE <<>>)

CommaToPeriod(s) == [i \in 1..Len(s) |-> IF s[i] = "," THEN "." ELSE s[i]]

\* the first numeric run, with an optional decimal part
NumericRun == Plus(Digits) \o Opt(Cls({"."}, 1, 1) \o Plus(Digits))

\* the weight field: upper case, trimmed, commas to periods, then the first
\* numeric run or nothing
normWeight(v) ==
  LET u == CommaToPeriod(Trim(UpperCase(AsString(v))))
      m == Search(NumericRun, u)
  IN  Str(IF m.ok THEN SubSeq(u, m.start, m.end - 1) ELSE <<>>)

\* exporter and importer: always an object with all its sub-fields
normParty(v, subfields) == Obj([g \in subfields |-> normText(Field(v, g))])

ExporterFields == {"name", "address"}
ImporterFields == {"name", "address", "id"}

normalize(x) ==
  LET c == Field(x, "cmr")
      i == Field(x, "invoice")
  IN  Obj([ cmr |-> Obj(
              [ exporter |-> normParty(Field(c, "exporter"), ExporterFields),
                importer |-> normParty(Field(c, "importer"), ImporterFields),
                goods_name |-> normText(Field(c, "goods_name")),
                vin |-> normVin(Field(c, "vin")),
                gross_weight_kg |-> normWeight(Field(c, "gross_weight_kg")),
                loading_place |-> normText(Field(c, "loading_place")),
                delivery_place |-> normText(Field(c, "delivery_place")),
                date |-> normText(Field(c, "date")) ]),
            invoice |-> Obj(
              [ exporter |-> normParty(Field(i, "exporter"), ExporterFields),
                importer |-> normParty(Field(i, "importer"), ImporterFields),
                goods_name |-> normText(Field(i, "goods_name")),
                vin |-> normVin(Field(i, "vin")),
                invoice_no |-> normText(Field(i, "invoice_no")),
                invoice_date |-> normText(Field(i, "invoice_date")),
                total_amount |-> normText(Field(i, "total_amount")) ]) ])

NormalizerIdle == candidate = Undefined /\ record = Undefined /\ npc = "off"

(***************************************************************************)
(* The cache                                                               *)
(***************************************************************************)
CACHE_TTL_MS == 1000 * 60 * 30

\* a collision-free digest of the buffer
sha256(buf) == <<"sha256", buf>>

\* a key that is the digest alone, without the prefix of the provider
KeyWithoutPrefix(prefix, buf) == sha256(buf)

\* "openai:" + sha256(fileBuf), "vision:" + sha256(fileBuf)
Key(prefix, buf) == <<prefix>> \o sha256(buf)

\* Map.prototype.delete
MapDelete(C, key) == [k \in DOMAIN C \ {key} |-> C[k]]

\* Map.prototype.set
MapSet(C, key, v) == [k \in DOMAIN C \cup {key} |-> IF k = key THEN v ELSE C[k]]

\* expiry as soon as the age reaches the TTL (>= for >)
ExpiredAtTTL(v, t) == t - v.ts >= CACHE_TTL_MS

\* Date.now() - v.ts > CACHE_TTL_MS
Expired(v, t) == t - v.ts > CACHE_TTL_MS

\* cacheGet(key) at time t on the map C: the value returned (hit: whether an
\* entry is returned) and the map afterwards
cacheGet(C, key, t) ==
  IF key \notin DOMAIN C THEN [hit |-> FALSE, cache |-> C]
  ELSE IF Expired(C[key], t) THEN [hit |-> FALSE, cache |-> MapDelete(C, key)]
  ELSE [hit |-> TRUE, v |-> C[key], cache |-> C]

\* cacheSet(key, value) at time t
cacheSet(C, key, value, t) ==
  MapSet(C, key, [analysis |-> value.analysis, provider |-> value.provider, ts |-> t])

(***************************************************************************)
(* Requests, files and what the providers answer                           *)
(***************************************************************************)
NumReqs == 2
NumFiles == 1
MaxTicks == 2

Reqs == 1..NumReqs

\* req.file: absent, or a buffer (which may be empty)
NoFile == [present |-> FALSE, buffer |-> <<>>]
File(buf) == [present |-> TRUE, buffer |-> buf]
Buffers == {<<>>} \cup {<<b>> : b \in 1..NumFiles}
Files == {NoFile} \cup {File(b) : b \in Buffers}

NoAnalysis == [none |-> TRUE]

\* JSON of the schema of the prompt (lines 191-211)
PromptSchema(name, vin, amount) ==
  [ cmr |->
      [ exporter |-> [name |-> name, address |-> Null],
        importer |-> [name |-> Null, id |-> Null],
        goods_name |-> Null,
        vin |-> vin,
        gross_weight_kg |-> Null,
        loading_place |-> Null,
        delivery_place |-> Null,
        date |-> Null ],
    invoice |->
      [ exporter |-> [name |-> name],
        importer |-> [name |-> Null, id |-> Null],
        goods_name |-> Null,
        vin |-> vin,
        invoice_no |-> Null,
        invoice_date |-> Null,
        total_amount |-> amount ] ]

\* what the language model may answer for a file
OpenAIOutputs ==
  { PromptSchema(Null, Null, Null),
    PromptSchema(Str(<<"A","C","M","E">>),
                 Str(<<"1","M","8","G","D","M","9","A","X","K","P","0","4","2","7","8","8">>),
                 Str(<<"9","9">>)) }

\* text the OCR may return
VisionTexts == {<<>>, NoContentText, EndToEndText}

\* extractFromVisionText on the texts of VisionTexts, computed once
VisionTable == {<<t, extractFromVisionText(t)>> : t \in VisionTexts}
extractFromVisionTextOf(t) == (CHOOSE p \in VisionTable : p[1] = t)[2]

Idle == [pc |-> "idle", endpoint |-> "", file |-> NoFile, key |-> <<>>,
         status |-> 0, cached |-> FALSE, analysis |-> NoAnalysis]

\* res.status(code).json({error: ...})
Fail(q, code) == [q EXCEPT !.pc = "done", !.status = code]

\* res.json({analysis, provider, cached})
Respond(q, a, c) ==
  [q EXCEPT !.pc = "done", !.status = 200, !.cached = c, !.analysis = a]

\* requests are numbered in the order they arrive
NextToArrive(r) ==
  req[r].pc = "idle" /\ (IF r = 1 THEN TRUE ELSE req[r - 1].pc # "idle")

ExtractorIdle == rawText = <<>> /\ text = <<>> /\ analysis = NoAnalysis /\ epc = "off"

Init ==
  /\ CACHE = << >>
  /\ now = 0
  /\ req = [r \in Reqs |-> Idle]
  /\ calls = [k \in {} |-> 0]
  /\ ExtractorIdle
  /\ NormalizerIdle

\* a lookup that waits while another request is calling the provider for the
\* same key (a per-key lock)
LookupSerialized(r, q, key) ==
  LET got == cacheGet(CACHE, key, now)
  IN  /\ \A o \in Reqs : ~(req[o].pc = "await" /\ req[o].key = key)
      /\ CACHE' = got.cache
      /\ IF got.hit
         THEN /\ req' = [req EXCEPT ![r] =
                           Respond([q EXCEPT !.key = key], got.v.analysis, TRUE)]
              /\ UNCHANGED calls
         ELSE /\ req' = [req EXCEPT ![r] = [q EXCEPT !.pc = "await", !.key = key]]
              /\ calls' = MapSet(calls, key,
                            IF key \in DOMAIN calls THEN calls[key] + 1 ELSE 1)

\* the cache lookup of a handler and what follows it up to the await of the
\* provider call (lines 261-266, 285-293): a hit is answered at once, a miss
\* calls the provider; q is the request so far
Lookup(r, q, key) ==
  LET got == cacheGet(CACHE, key, now)
  IN  /\ CACHE' = got.cache
      /\ IF got.hit
         THEN /\ req' = [req EXCEPT ![r] =
                           Respond([q EXCEPT !.key = key], got.v.analysis, TRUE)]
              /\ UNCHANGED calls
         ELSE /\ req' = [req EXCEPT ![r] = [q EXCEPT !.pc = "await", !.key = key]]
              /\ calls' = MapSet(calls, key,
                            IF key \in DOMAIN calls THEN calls[key] + 1 ELSE 1)

\* the synchronous part of a handler, up to the await of the provider call:
\* lines 256-266 with prefix "openai:", lines 280-293 with prefix "vision:"
HandlerStart(r, endpoint, prefix, f) ==
  /\ NextToArrive(r)
  /\ LET q == [req[r] EXCEPT !.endpoint = endpoint, !.file = f]
     IN  IF ~f.present
         THEN /\ req' = [req EXCEPT ![r] = Fail(q, 400)]
              /\ UNCHANGED <<CACHE, calls>>
         ELSE Lookup(r, q, Key(prefix, f.buffer))
  /\ UNCHANGED <<now, rawText, text, analysis, epc,
               candidate, record, npc>>

\* app.post("/upload", ...), lines 254-266
UploadOpenAI(r, f) == HandlerStart(r, "/upload", "openai:", f)

\* app.post("/upload/google-vision", ...), lines 278-293
UploadVision(r, f) == HandlerStart(r, "/upload/google-vision", "vision:", f)

\* a handler that answers without storing the analysis
FinishWithoutStore(r, a, provider) ==
  /\ req' = [req EXCEPT ![r] = Respond(req[r], a, FALSE)]
  /\ UNCHANGED <<CACHE, now, calls, rawText, text, analysis, epc,
                 candidate, record, npc>>

\* what a handler does with the analysis once the provider has answered:
\* lines 268-270 and 298-300
Finish(r, a, provider) ==
  /\ CACHE' = cacheSet(CACHE, req[r].key, [analysis |-> a, provider |-> provider], now)
  /\ req' = [req EXCEPT ![r] = Respond(req[r], a, FALSE)]
  /\ UNCHANGED <<now, calls, rawText, text, analysis, epc,
               candidate, record, npc>>

\* analyzeWithOpenAI returns the parsed JSON, lines 266-270
OpenAIReturn(r, out) ==
  /\ req[r].pc = "await" /\ req[r].endpoint = "/upload"
  /\ Finish(r, out, "openai")

\* documentTextDetection returns, lines 291-300
VisionReturn(r, t) ==
  /\ req[r].pc = "await" /\ req[r].endpoint = "/upload/google-vision"
  /\ Finish(r, extractFromVisionTextOf(t), "google-vision")

\* a catch block that stores the failure under the key
ProviderThrowsCaching(r) ==
  /\ req[r].pc = "await"
  /\ CACHE' = cacheSet(CACHE, req[r].key,
                       [analysis |-> NoAnalysis, provider |-> "error"], now)
  /\ req' = [req EXCEPT ![r] = Fail(req[r], 500)]
  /\ UNCHANGED <<now, calls, rawText, text, analysis, epc,
               candidate, record, npc>>

\* the provider call throws, or JSON.parse does (lines 238-243): the catch
\* blocks of lines 271-274 and 301-304
ProviderThrows(r) ==
  /\ req[r].pc = "await"
  /\ req' = [req EXCEPT ![r] = Fail(req[r], 500)]
  /\ UNCHANGED <<CACHE, now, calls, rawText, text, analysis, epc,
               candidate, record, npc>>

\* Date.now() advances
Delays == {1, CACHE_TTL_MS}
Ticks(t) == (t \div CACHE_TTL_MS) + (t % CACHE_TTL_MS)

Tick(d) ==
  /\ Ticks(now) < MaxTicks
  /\ now' = now + d
  /\ UNCHANGED <<CACHE, req, calls, rawText, text, analysis, epc,
               candidate, record, npc>>

Next ==
  \/ \E r \in Reqs, f \in Files : UploadOpenAI(r, f)
  \/ \E r \in Reqs, f \in Files : UploadVision(r, f)
  \/ \E r \in Reqs, out \in OpenAIOutputs : OpenAIReturn(r, out)
  \/ \E r \in Reqs, t \in VisionTexts : VisionReturn(r, t)
  \/ \E r \in Reqs : ProviderThrows(r)
  \/ \E d \in Delays : Tick(d)

Spec == Init /\ [][Next]_vars

(***************************************************************************)
(* The extractor alone, on every text of RawTexts                          *)
(***************************************************************************)
InitExtract ==
  /\ CACHE = << >>
  /\ now = 0
  /\ req = [r \in Reqs |-> Idle]
  /\ calls = [k \in {} |-> 0]
  /\ rawText \in RawTexts
  /\ text = <<>>
  /\ analysis = NoAnalysis
  /\ epc = "call"
  /\ NormalizerIdle

\* one call of extractFromVisionText(rawText); text is its local variable
Extract ==
  /\ epc = "call"
  /\ text' = normalizeText(rawText)
  /\ analysis' = extractFromVisionText(rawText)
  /\ epc' = "return"
  /\ UNCHANGED <<CACHE, now, req, calls, rawText, candidate, record, npc>>

NextExtract == Extract

SpecExtract == InitExtract /\ [][NextExtract]_vars

(***************************************************************************)
(* Properties of the upload handlers and the cache (under Spec)            *)
(***************************************************************************)
HasString(rec, f) == f \in DOMAIN rec /\ IsStr(rec[f])

PartyConforms(rec, f, subfields) ==
  f \in DOMAIN rec /\ \A g \in subfields : HasString(rec[f], g)

\* the DocumentRecord shape: every declared leaf is there and is a string
Conforms(a) ==
  /\ DOMAIN a = {"cmr", "invoice"}
  /\ PartyConforms(a.cmr, "exporter", {"name", "address"})
  /\ PartyConforms(a.cmr, "importer", {"name", "address", "id"})
  /\ \A f \in {"goods_name", "vin", "gross_weight_kg", "loading_place",
               "delivery_place", "date"} : HasString(a.cmr, f)
  /\ PartyConforms(a.invoice, "exporter", {"name", "address"})
  /\ PartyConforms(a.invoice, "importer", {"name", "address", "id"})
  /\ \A f \in {"goods_name", "vin", "invoice_no", "invoice_date",
               "total_amount"} : HasString(a.invoice, f)

Answered(r) == req[r].pc = "done" /\ req[r].status = 200

\* C1: every analysis an upload endpoint returns (cache hit or miss) has the
\* normalized shape: each declared leaf of cmr and invoice is a string, and
\* exporter and importer are objects with all their sub-fields.
C1_ReturnedAnalysisConforms ==
  \A r \in Reqs : Answered(r) => Conforms(req[r].analysis)

\* the provider answers request r
ProviderReturns(r) ==
  \/ \E out \in OpenAIOutputs : OpenAIReturn(r, out)
  \/ \E t \in VisionTexts : VisionReturn(r, t)

Stored(key) == key \in DOMAIN CACHE

\* C8: no serialization on the cache key.  A request that arrives while the
\* cache holds nothing under its key goes on to call the provider, whatever
\* other requests are waiting for the provider under the same key; a request
\* waiting for the provider can always be answered, whatever the others do;
\* and a request answered after its provider call is answered cached: false.
C8_NoSerialization ==
  \A r \in Reqs :
    /\ NextToArrive(r) =>
         \A f \in Files : f.present =>
           /\ ~Stored(Key("openai:", f.buffer)) =>
                ENABLED (UploadOpenAI(r, f) /\ req'[r].pc = "await")
           /\ ~Stored(Key("vision:", f.buffer)) =>
                ENABLED (UploadVision(r, f) /\ req'[r].pc = "await")
    /\ req[r].pc = "await" =>
         ENABLED (ProviderReturns(r) /\ Answered(r)' /\ ~req'[r].cached)

\* C8 happens: two requests for the same content on the same endpoint have both
\* been answered cached: false and no time has passed, so both missed the cache
\* before either stored its result, and the provider was called twice.
C8_BothMissed ==
  \E r1, r2 \in Reqs :
    /\ r1 # r2 /\ now = 0
    /\ Answered(r1) /\ ~req[r1].cached
    /\ Answered(r2) /\ ~req[r2].cached
    /\ req[r1].key = req[r2].key
    /\ calls[req[r1].key] = 2

Age(key) == now - CACHE[key].ts

\* C9: an entry, once stored, keeps its analysis and timestamp for as long as
\* it is unexpired, whatever any request does.
C9_EntriesImmutable ==
  [][\A k \in DOMAIN CACHE :
       Age(k) <= CACHE_TTL_MS => (k \in DOMAIN CACHE' /\ CACHE'[k] = CACHE[k])]_vars

Arrives(r) == req[r].pc = "idle" /\ req'[r].pc # "idle" /\ req'[r].file.present

\* C10: expiry is measured from the write.  A request is answered from the
\* cache only by an entry of age at most the TTL, with that entry's analysis,
\* and the hit leaves the whole cache as it was; a lookup that finds an older
\* entry deletes it and the request calls the provider; and an entry leaves the
\* cache only in the lookup of its own key that finds it older than the TTL.
C10_ExpiryFromWrite ==
  [][/\ \A r \in Reqs : Arrives(r) =>
          LET k == req'[r].key
          IN  /\ req'[r].pc \in {"done", "await"}
              /\ req'[r].pc = "done" =>
                   /\ Stored(k) /\ Age(k) <= CACHE_TTL_MS
                   /\ Answered(r)' /\ req'[r].cached
                   /\ req'[r].analysis = CACHE[k].analysis
                   /\ CACHE' = CACHE
                   /\ calls' = calls
              /\ (Stored(k) /\ Age(k) > CACHE_TTL_MS) =>
                   /\ req'[r].pc = "await"
                   /\ k \notin DOMAIN CACHE'
                   /\ calls'[k] = calls[k] + 1
     /\ \A k \in DOMAIN CACHE \ DOMAIN CACHE' :
          /\ Age(k) > CACHE_TTL_MS
          /\ \E r \in Reqs : Arrives(r) /\ req'[r].key = k]_vars

\* C10 happens: a request was answered after its provider call, and a later
\* request for the same key waits for the provider while the cache holds
\* nothing under the key: its lookup found the entry expired and deleted it.
C10_ExpiredLookup ==
  \E r1, r2 \in Reqs :
    /\ Answered(r1) /\ ~req[r1].cached
    /\ req[r2].pc = "await" /\ req[r2].key = req[r1].key
    /\ ~Stored(req[r1].key)
    /\ calls[req[r1].key] = 2

(***************************************************************************)
(* Properties of the extractor (under SpecExtract)                         *)
(***************************************************************************)
Returned == epc = "return"

NotWordAt(t, i) == i < 1 \/ i > Len(t) \/ t[i] \notin WordChars

SepChars == {":"} \cup WhiteSpace

VinCharsAnyCase == {c \in Upper \cup Lower \cup Digits : ToUpper(c) \in VinChars}

\* the word VIN, in either case, starts at p as a word of its own
VinLabelAt(t, p) ==
  /\ NotWordAt(t, p - 1) /\ p + 2 <= Len(t)
  /\ ToUpper(t[p]) = "V" /\ ToUpper(t[p + 1]) = "I" /\ ToUpper(t[p + 2]) = "N"

\* exactly 17 characters of the set S start at q and end a word
VinRunAt(t, q, S) ==
  /\ q + 16 <= Len(t)
  /\ \A i \in q..(q + 16) : t[i] \in S
  /\ NotWordAt(t, q + 17)

\* a labeled occurrence: the label at p, then colons and white space only,
\* then the 17 characters at q
LabeledVinAt(t, p, q) ==
  /\ VinLabelAt(t, p) /\ q >= p + 3
  /\ \A i \in (p + 3)..(q - 1) : t[i] \in SepChars
  /\ VinRunAt(t, q, VinCharsAnyCase)

LabeledVins(t) ==
  {pq \in UNION {{<<p, q>> : q \in (p + 3)..Len(t)} :
                    p \in {x \in 1..Len(t) : VinLabelAt(t, x)}} :
     LabeledVinAt(t, pq[1], pq[2])}

\* a bare occurrence: 17 VIN characters that are a word of their own
BareVins(t) == {q \in 1..Len(t) : NotWordAt(t, q - 1) /\ VinRunAt(t, q, VinChars)}

Least(S) == CHOOSE x \in S : \A y \in S : x <= y

FirstLabeled(t) ==
  CHOOSE pq \in LabeledVins(t) : \A o \in LabeledVins(t) : pq[1] <= o[1]

VinAt(t, q) == Str(SubSeq(t, q, q + 16))

\* C2: label precedence.  If the text holds a labeled VIN (the word VIN, then
\* colons and white space, then a 17-character VIN word), the extracted vin is
\* the first labeled one, wherever the bare 17-character runs are; a bare run
\* (the first one) is extracted only when there is no labeled VIN, and the vin
\* is null when there is neither.
C2_LabeledVinPreferred ==
  Returned =>
    IF LabeledVins(text) # {}
    THEN analysis.cmr.vin = VinAt(text, FirstLabeled(text)[2])
    ELSE IF BareVins(text) # {}
    THEN analysis.cmr.vin = VinAt(text, Least(BareVins(text)))
    ELSE analysis.cmr.vin = Null

\* C2 happens: a bare run comes before the first labeled VIN, is another VIN,
\* and the labeled one is extracted.
C2_BareBeforeLabeled ==
  /\ Returned
  /\ LabeledVins(text) # {} /\ BareVins(text) # {}
  /\ Least(BareVins(text)) < FirstLabeled(text)[1]
  /\ VinAt(text, Least(BareVins(text))) # VinAt(text, FirstLabeled(text)[2])
  /\ analysis.cmr.vin = VinAt(text, FirstLabeled(text)[2])

\* the fields that matchOne extracts: the pattern list and the value returned
MatchOneFields(a) ==
  << <<VinPatterns, a.cmr.vin>>,
     <<GrossPatterns, a.cmr.gross_weight_kg>>,
     <<InvoiceDatePatterns, a.invoice.invoice_date>>,
     <<TotalPatterns, a.invoice.total_amount>>,
     <<ExporterPatterns, a.cmr.exporter.name>>,
     <<ImporterPatterns, a.cmr.importer.name>>,
     <<GoodsPatterns, a.cmr.goods_name>>,
     <<CmrDatePatterns, a.cmr.date>>,
     <<LoadingPatterns, a.cmr.loading_place>>,
     <<DeliveryPatterns, a.cmr.delivery_place>> >>

\* the fields of the invoice that repeat a field of the CMR
SameInBoth(a) ==
  /\ a.invoice.vin = a.cmr.vin
  /\ a.invoice.exporter.name = a.cmr.exporter.name
  /\ a.invoice.importer.name = a.cmr.importer.name
  /\ a.invoice.goods_name = a.cmr.goods_name

Matching(t, patterns) == {i \in 1..Len(patterns) : Search(patterns[i], t).ok}

\* group 1 of the earliest pattern that matches, trimmed
EarliestCapture(t, patterns) ==
  LET m == Search(patterns[Least(Matching(t, patterns))], t)
  IN  Trim(Group1(t, m))

\* C3 as claimed: for every field, the result is the trimmed first capture
\* group of the earliest pattern of its list that matches.
C3_FirstMatchWins_AsClaimed ==
  Returned =>
    LET fs == MatchOneFields(analysis)
                \o <<<<(<<InvoiceNoFixedPattern>>), analysis.invoice.invoice_no>>>>
    IN  \A k \in 1..Len(fs) :
          Matching(text, fs[k][1]) # {} =>
            fs[k][2] = Str(EarliestCapture(text, fs[k][1]))

\* C3 as amended: for every field that matchOne extracts, the result is the
\* trimmed first capture group of the earliest pattern of its list that
\* matches, or null when that trimmed group is empty (later patterns are then
\* not tried), and null when no pattern matches; invoice_no is the trimmed
\* first group of the pattern of line 100.
C3_FirstMatchWins ==
  Returned =>
    /\ LET fs == MatchOneFields(analysis)
       IN  \A k \in 1..Len(fs) :
             fs[k][2] =
               IF Matching(text, fs[k][1]) = {} THEN Null
               ELSE IF EarliestCapture(text, fs[k][1]) = <<>> THEN Null
               ELSE Str(EarliestCapture(text, fs[k][1]))
    /\ SameInBoth(analysis)
    /\ analysis.invoice.invoice_no =
         IF Matching(text, <<InvoiceNoFixedPattern>>) = {} THEN Null
         ELSE Str(EarliestCapture(text, <<InvoiceNoFixedPattern>>))

\* C3 happens: the second exporter pattern matches earlier in the text than
\* the first one, and the first one gives the result.
C3_LaterPatternEarlierInText ==
  /\ Returned
  /\ Matching(text, ExporterPatterns) = {1, 2}
  /\ Search(ExporterPatterns[2], text).start < Search(ExporterPatterns[1], text).start
  /\ IsStr(analysis.cmr.exporter.name)
  /\ analysis.cmr.exporter.name.val = EarliestCapture(text, ExporterPatterns)

\* the values of all pattern-derived fields of the record
PatternFields(a) ==
  MatchOneFields(a) \o
  << <<InvoiceNoPatterns, a.invoice.invoice_no>>,
     <<VinPatterns, a.invoice.vin>>,
     <<ExporterPatterns, a.invoice.exporter.name>>,
     <<ImporterPatterns, a.invoice.importer.name>>,
     <<GoodsPatterns, a.invoice.goods_name>> >>

NonEmptyTrimmed(v) ==
  /\ IsStr(v) /\ Len(v.val) > 0
  /\ v.val[1] \notin WhiteSpace /\ v.val[Len(v.val)] \notin WhiteSpace

\* C4: for every text the extractor returns a record; each pattern-derived
\* field is null when no pattern of its list matches, and is never the empty
\* string: it is null or a non-empty trimmed string.
C4_AbsenceIsNull ==
  Returned =>
    /\ DOMAIN analysis = {"cmr", "invoice"}
    /\ LET fs == PatternFields(analysis)
       IN  \A k \in 1..Len(fs) :
             /\ Matching(text, fs[k][1]) = {} => fs[k][2] = Null
             /\ fs[k][2] = Null \/ NonEmptyTrimmed(fs[k][2])

\* C4 happens: "no relevant content" is extracted and every field is null.
C4_NothingFound ==
  /\ Returned /\ rawText = NoContentText
  /\ LET fs == PatternFields(analysis)
     IN  \A k \in 1..Len(fs) : fs[k][2] = Null

\* the canonical form of a preprocessed text
Canonical(t) ==
  /\ \A i \in 1..Len(t) : t[i] \notin {"\r", "\t"}
  /\ \A i \in 1..(Len(t) - 1) : ~(t[i] = " " /\ t[i + 1] = " ")
  /\ \A i \in 1..(Len(t) - 2) : ~(t[i] = "\n" /\ t[i + 1] = "\n" /\ t[i + 2] = "\n")
  /\ Len(t) > 0 => (t[1] \notin WhiteSpace /\ t[Len(t)] \notin WhiteSpace)

\* C5: the preprocessed text has no carriage return, no tab, no two blanks in
\* a row, no three newlines in a row and no white space at either end, and the
\* fields are matched in it: extracting from the preprocessed text gives the
\* same record as extracting from the raw text.
C5_PreprocessedFirst ==
  Returned =>
    /\ Canonical(text)
    /\ analysis = extractFromVisionText(text)

\* C5 happens: a raw text with a carriage return, a tab, white space at its
\* end and a different preprocessed form has been extracted.
C5_RawTextDiffers ==
  /\ Returned
  /\ \E i \in 1..Len(rawText) : rawText[i] = "\r"
  /\ \E i \in 1..Len(rawText) : rawText[i] = "\t"
  /\ rawText[Len(rawText)] \in WhiteSpace
  /\ Len(text) > 0 /\ text # rawText

AcmeLlc == Str(<<"A","C","M","E"," ","L","L","C">>)
SampleVin == Str(<<"1","M","8","G","D","M","9","A","X","K","P","0","4","2","7","8","8">>)

Occurs(t, v) == \E i \in 1..(Len(t) - Len(v) + 1) : SubSeq(t, i, i + Len(v) - 1) = v

NameFields(a) ==
  << <<a.cmr.exporter.name, {<<"e","x","p","o","r","t","e","r">>, <<"s","e","n","d","e","r">>, <<"c","o","n","s","i","g","n","o","r">>}, 80>>,
     <<a.cmr.importer.name, {<<"i","m","p","o","r","t","e","r">>, <<"r","e","c","e","i","v","e","r">>, <<"c","o","n","s","i","g","n","e","e">>}, 80>>,
     <<a.cmr.goods_name, {<<"g","o","o","d","s">>, <<"d","e","s","c","r","i","p","t","i","o","n">>}, 120>> >>

\* the label word w, in either case, ends at position e of t
LabelEndsAt(t, e, w) ==
  /\ e >= Len(w)
  /\ \A i \in 1..Len(w) : ToLower(t[e - Len(w) + i]) = w[i]

LabelEnds(t, words) ==
  {e \in 1..Len(t) : \E w \in words : LabelEndsAt(t, e, w)}

\* v stands at q, after a label that ends at e; sameLine: nothing but v's own
\* line lies between: no newline from the label to the end of v
FollowsLabel(t, e, q, v, sameLine) ==
  /\ q > e /\ q + Len(v) - 1 <= Len(t)
  /\ SubSeq(t, q, q + Len(v) - 1) = v
  /\ \A i \in (e + 1)..(q - 1) : t[i] \in SepChars
  /\ sameLine => \A i \in (e + 1)..(q - 1) : t[i] # "\n"

AfterLabel(t, words, v, sameLine) ==
  \E e \in LabelEnds(t, words) :
    \E q \in (e + 1)..Len(t) : FollowsLabel(t, e, q, v, sameLine)

\* C7 as claimed: a non-null exporter name, importer name or goods_name is a
\* run of at least 3 and at most 120 characters without a newline, taken from
\* the line of its label word, after the label's colons and white space.
C7_NameShape_AsClaimed ==
  Returned =>
    LET fs == NameFields(analysis)
    IN  \A k \in 1..Len(fs) :
          IsStr(fs[k][1]) =>
            /\ Len(fs[k][1].val) >= 3 /\ Len(fs[k][1].val) <= 120
            /\ \A i \in 1..Len(fs[k][1].val) : fs[k][1].val[i] # "\n"
            /\ AfterLabel(text, fs[k][2], fs[k][1].val, TRUE)

\* C7 as amended: a non-null exporter name, importer name or goods_name is a
\* non-empty trimmed run of at most 80 characters (120 for goods_name) without
\* a newline, which stands in the preprocessed text after one of its label
\* words, with nothing but colons and white space (newlines included) between
\* the label and the value.
C7_NameShape ==
  Returned =>
    /\ LET fs == NameFields(analysis)
       IN  \A k \in 1..Len(fs) :
             IsStr(fs[k][1]) =>
               /\ NonEmptyTrimmed(fs[k][1])
               /\ Len(fs[k][1].val) <= fs[k][3]
               /\ \A i \in 1..Len(fs[k][1].val) : fs[k][1].val[i] # "\n"
               /\ AfterLabel(text, fs[k][2], fs[k][1].val, FALSE)
    /\ SameInBoth(analysis)

\* C7 happens: an exporter line longer than the limit has been extracted and
\* the name is its first 80 characters.
C7_NameCutAt80 ==
  /\ Returned
  /\ IsStr(analysis.cmr.exporter.name)
  /\ Len(analysis.cmr.exporter.name.val) = 80
  /\ \E i \in 1..(Len(text) - 80) :
       /\ SubSeq(text, i, i + 79) = analysis.cmr.exporter.name.val
       /\ text[i + 80] # "\n"

(***************************************************************************)
(* Validation and provider failure (under Spec)                            *)
(***************************************************************************)
NoUsableFile(f) == ~f.present \/ Len(f.buffer) = 0

\* C11: a request that carries no file, or a file whose buffer has length
\* zero, is answered 400 and reaches neither the cache lookup nor the
\* provider call: it never has a key and never waits for a provider.
C11_EmptyFileRejected ==
  \A r \in Reqs :
    (req[r].pc # "idle" /\ NoUsableFile(req[r].file)) =>
      /\ req[r].pc = "done" /\ req[r].status = 400
      /\ req[r].key = <<>>

\* the step in which request r is answered 500
Throws(r) == req[r].pc = "await" /\ req'[r].pc = "done" /\ req'[r].status = 500

\* the step in which request r is answered after its provider call
Succeeds(r) == req[r].pc = "await" /\ Answered(r)'

Failed(key) == \E o \in Reqs : req[o].status = 500 /\ req[o].key = key

\* C12: a provider failure is answered 500 with no analysis and the failing
\* step leaves the cache as it was; an entry is written or changed only in
\* the step in which a provider call succeeds, with the analysis that call
\* gave, so no failure is ever cached; and a request that arrives for a key
\* that failed and is not in the cache calls the provider again.
C12_FailureNotCached ==
  [][/\ \A r \in Reqs :
          /\ Throws(r) => (CACHE' = CACHE /\ req'[r].analysis = NoAnalysis)
          /\ (Arrives(r) /\ Failed(req'[r].key) /\ ~Stored(req'[r].key)) =>
               /\ req'[r].pc = "await"
               /\ calls'[req'[r].key] = calls[req'[r].key] + 1
     /\ \A k \in DOMAIN CACHE' :
          (k \notin DOMAIN CACHE \/ CACHE'[k] # CACHE[k]) =>
            \E r \in Reqs :
              /\ Succeeds(r) /\ req[r].key = k
              /\ CACHE'[k].analysis = req'[r].analysis]_vars

\* C12 happens: a request was answered 500, the cache holds nothing under its
\* key, and a request that arrived after it for the same content has been
\* answered by a second provider call.
C12_RetriedAfterFailure ==
  \E r1, r2 \in Reqs :
    /\ r1 < r2
    /\ req[r1].status = 500
    /\ req[r2].key = req[r1].key
    /\ Answered(r2) /\ ~req[r2].cached
    /\ calls[req[r1].key] = 2

(***************************************************************************)
(* The Normalizer alone, on every candidate of Candidates                  *)
(***************************************************************************)
MaxPad == 2

\* up to MaxPad blanks
Pads == {[i \in 1..k |-> " "] : k \in 0..MaxPad}
Padded(s) == {a \o s \o b : a, b \in Pads}

VinTexts ==
  { <<"1","M","8","G","D","M","9","A","X","K","P","0","4","2","7","8","8">>,
    <<"j","h","4","k","a","8","2","6","0","m","c","0","0","0","0","0","1">>,
    <<"1","M","8","G","D","M","9","A","X","K","P","0","4","2","7","8">>,
    <<"1","M","8","G","D","M","9","A","X","K","P","O","4","2","7","8","8">>,
    <<"1","M","8","G","D","M","9","A","X","K","P","0","4","2","7","8","8","7">>,
    <<"1","M","8","G","D","M","9","A"," ","X","K","P","0","4","2","7","8">> }

WeightTexts ==
  { <<"4","5","0",",","5"," ","k","g">>, <<"1",",","2","3","4",".","5">>, <<"k","g">>, <<"1","2",".","5">>,
    <<"a","b","c"," ","7">>, <<",","5",",","6">>, <<"3",".">>, <<"4","5","0",".","5">> }

OddLeaves == {Null, Undefined, Num(7), Str(<<>>), Arr}

VinValues == OddLeaves \cup {Str(p) : p \in UNION {Padded(v) : v \in VinTexts}}

WeightValues == {Null, Num(450)} \cup {Str(w) : w \in WeightTexts}

PaddedWeights == {Str(p) : p \in UNION {Padded(w) : w \in WeightTexts}}

Parties ==
  {Null, Str(<<"x">>), Arr}
    \cup {Obj([name |-> Str(p)]) : p \in Padded(<<"A","C","M","E"," ","L","L","C">>)}
    \cup {Obj([name |-> Num(7), address |-> Null,
               extra |-> Str(<<"q">>)])}

\* candidates that are no object, or whose cmr and invoice are none
Shapeless ==
  { Null, Undefined, Str(<<"x">>), Num(5), Arr, Obj(<< >>),
    Obj([cmr |-> Null]), Obj([cmr |-> Str(<<"x">>), invoice |-> Arr]),
    Obj([cmr |-> Obj(<< >>), invoice |-> Num(5)]) }

Candidates ==
  Shapeless
    \cup {Obj([cmr |-> Obj([vin |-> v, gross_weight_kg |-> w]),
               invoice |-> Obj([vin |-> v, extra |-> Num(1)])]) :
            v \in VinValues, w \in WeightValues}
    \cup {Obj([cmr |-> Obj([gross_weight_kg |-> w, exporter |-> e,
                            goods_name |-> Num(7)]),
               invoice |-> Obj([importer |-> e, total_amount |-> w])]) :
            w \in PaddedWeights, e \in Parties}

InitNormalize ==
  /\ CACHE = << >>
  /\ now = 0
  /\ req = [r \in Reqs |-> Idle]
  /\ calls = [k \in {} |-> 0]
  /\ ExtractorIdle
  /\ candidate \in Candidates
  /\ record = Undefined
  /\ npc = "call"

\* normalize(candidate)
Normalize ==
  /\ npc = "call"
  /\ record' = normalize(candidate)
  /\ npc' = "return"
  /\ UNCHANGED <<CACHE, now, req, calls, rawText, text, analysis, epc, candidate>>

\* normalize applied to the record it returned
Renormalize ==
  /\ npc = "return"
  /\ candidate' = record
  /\ record' = normalize(record)
  /\ npc' = "again"
  /\ UNCHANGED <<CACHE, now, req, calls, rawText, text, analysis, epc>>

NextNormalize == Normalize \/ Renormalize

SpecNormalize == InitNormalize /\ [][NextNormalize]_vars

(***************************************************************************)
(* Properties of the Normalizer (under SpecNormalize)                      *)
(***************************************************************************)
\* C13: normalizing a normalized record gives the same record, field by
\* field: after the second pass the record (record) equals the one that was
\* passed in (candidate, the result of the first pass).
C13_Idempotent == npc = "again" => record = candidate

\* C13 happens: the second pass has run on a record with a VIN, a weight and
\* an exporter name.
C13_SecondPassDone ==
  /\ npc = "again"
  /\ record = candidate
  /\ record.fields.cmr.fields.gross_weight_kg.val # <<>>
  /\ \/ record.fields.cmr.fields.vin.val # <<>>
     \/ record.fields.cmr.fields.exporter.fields.name.val # <<>>

\* 17 characters of A-H, J-N, P, R-Z, 0-9
ValidVin(s) ==
  /\ Len(s) = 17
  /\ \A i \in 1..Len(s) : s[i] \in (Upper \cup Digits) \ {"I", "O", "Q"}

\* where in s a valid VIN stands, in either case, with white space only
\* around it
VinInside(s) ==
  {i \in 1..(Len(s) - 16) :
     /\ ValidVin(SubSeq(UpperCase(s), i, i + 16))
     /\ \A j \in 1..Len(s) : (j < i \/ j > i + 16) => s[j] \in WhiteSpace}

\* the VIN a candidate value stands for, or the empty string
ExpectedVin(v) ==
  IF IsStr(v) /\ VinInside(v.val) # {}
  THEN LET i == CHOOSE i \in VinInside(v.val) : TRUE
       IN  SubSeq(UpperCase(v.val), i, i + 16)
  ELSE <<>>

\* C14: the normalized cmr.vin and invoice.vin are each the empty string or
\* 17 VIN characters: the input, upper-cased and trimmed, when that is a valid
\* VIN, and the empty string otherwise.
C14_VinValidated ==
  npc = "return" =>
    \A part \in {"cmr", "invoice"} :
      LET out == record.fields[part].fields.vin
          in == Field(Field(candidate, part), "vin")
      IN  /\ IsStr(out)
          /\ out.val = <<>> \/ ValidVin(out.val)
          /\ out.val = ExpectedVin(in)

\* C14 happens: a 16-character VIN has been normalized to the empty string.
C14_ShortVinDiscarded ==
  /\ npc = "return"
  /\ Field(Field(candidate, "cmr"), "vin") = Str(<<"1","M","8","G","D","M","9","A","X","K","P","0","4","2","7","8">>)
  /\ record.fields.cmr.fields.vin = Str(<<>>)

(***************************************************************************)
(* Hits, misses and the two providers (under Spec)                         *)
(***************************************************************************)
PrefixOf(endpoint) == IF endpoint = "/upload" THEN "openai:" ELSE "vision:"

CallsFor(k) == IF k \in DOMAIN calls THEN calls[k] ELSE 0

\* C15: a request with a file takes the key of its endpoint and the digest of
\* its bytes.  If the cache holds an unexpired entry under that key, the
\* request is answered at once with the analysis of the entry and cached:
\* true, no provider is called and the cache is not written; otherwise the
\* provider is called once, and when it returns the analysis is stored under
\* the key and the request is answered with it and cached: false.
C15_HitOrMiss ==
  [][\A r \in Reqs :
       /\ Arrives(r) =>
            LET k == Key(PrefixOf(req'[r].endpoint), req'[r].file.buffer)
            IN  /\ req'[r].key = k
                /\ IF Stored(k) /\ Age(k) <= CACHE_TTL_MS
                   THEN /\ Answered(r)' /\ req'[r].cached
                        /\ req'[r].analysis = CACHE[k].analysis
                        /\ CACHE' = CACHE
                        /\ calls' = calls
                   ELSE /\ req'[r].pc = "await"
                        /\ calls'[k] = CallsFor(k) + 1
                        /\ \A j \in DOMAIN calls \ {k} : calls'[j] = calls[j]
       /\ Succeeds(r) =>
            /\ ~req'[r].cached
            /\ req[r].key \in DOMAIN CACHE'
            /\ CACHE'[req[r].key].analysis = req'[r].analysis
            /\ CACHE'[req[r].key].ts = now
            /\ calls' = calls]_vars

\* C15 happens: one request was answered after its provider call and another
\* one from the cache with the stored analysis, after a single provider call.
C15_ServedFromCache ==
  \E r1, r2 \in Reqs :
    /\ Answered(r1) /\ ~req[r1].cached
    /\ Answered(r2) /\ req[r2].cached
    /\ req[r2].key = req[r1].key
    /\ Stored(req[r2].key)
    /\ req[r2].analysis = CACHE[req[r2].key].analysis
    /\ calls[req[r2].key] = 1

(***************************************************************************)
(* Line endings and the extracted VIN (under SpecExtract)                  *)
(***************************************************************************)
\* t written with LF line endings: CRLF and a lone CR each become one LF
WithLF(t) ==
  SelectSeq([i \in 1..Len(t) |->
               IF t[i] # "\r" THEN t[i]
               ELSE IF i < Len(t) /\ t[i + 1] = "\n" THEN Dropped
               ELSE "\n"],
            Kept)

\* C16: each line ending, CRLF, lone CR or LF, becomes exactly one newline:
\* the preprocessed text is the one that the same text written with LF line
\* endings preprocesses to.
C16_LineEndingsUnified ==
  Returned => text = normalizeText(WithLF(rawText))

\* C17: a non-null extracted vin is 17 characters long, each one of A-H, J-N,
\* P, R-Z in upper case or a digit, and cmr.vin and invoice.vin are the same
\* value.
C17_ExtractedVinValid ==
  Returned =>
    /\ IsStr(analysis.cmr.vin) => ValidVin(analysis.cmr.vin.val)
    /\ analysis.invoice.vin = analysis.cmr.vin

(***************************************************************************)
(* The two providers share no entry (under Spec)                           *)
(***************************************************************************)
ProviderOf(endpoint) == IF endpoint = "/upload" THEN "openai" ELSE "google-vision"

\* request r is the first one that brings its file to its endpoint
FirstOnEndpoint(r) ==
  \A o \in Reqs \ {r} :
    ~(req[o].pc # "idle" /\ req[o].endpoint = req'[r].endpoint
        /\ req[o].file = req'[r].file)

============================================================================
